---- MODULE Spec2Model ----
(***************************************************************************)
(* Compliance and remediation evaluation of nautobot_golden_config:        *)
(* models.py (the comparators, the custom-result validator, the registry   *)
(* FUNC_MAPPER and ConfigCompliance.save).                                  *)
(*                                                                         *)
(* Python values are tagged records [t |-> type, v |-> payload]: the code  *)
(* tells True from 1, "" from [] and a str from a list, so the model does. *)
(* A str and a list carry a sequence of naturals (line ids, list items or  *)
(* diff paths: the path root[i] is the natural i).                         *)
(***************************************************************************)
EXTENDS Integers, Sequences, FiniteSets, TLC

\* ------------------------------------------------------------- bounds
\* Longest configuration (CLI lines / JSON list items) of the save() model.
MaxLen == 1
\* Longest JSON list of the model of _get_json_compliance alone.
JsonMaxLen == 3

\* Longest CLI configuration of the model of _get_cli_compliance alone.
CliMaxLen == 2

\* Line ids / list items of the save() model, and of the JSON model.
Items == {1}
JsonItems == {1, 2, 3}

SeqsUpTo(S, n) == UNION {[1..k -> S] : k \in 0..n}
Configs == SeqsUpTo(Items, MaxLen)
JsonConfigs == SeqsUpTo(JsonItems, JsonMaxLen)
\* Configurations of two distinct lines, so that one can reorder another.
CliConfigs == SeqsUpTo({1, 2}, CliMaxLen)

Range(q) == {q[k] : k \in DOMAIN q}

\* ------------------------------------------------------ Python values
PyBool(b) == [t |-> "bool", v |-> b]
PyInt(n) == [t |-> "int", v |-> n]
PyStr(q) == [t |-> "str", v |-> q]
PyList(q) == [t |-> "list", v |-> q]
\* None
PyNone == [t |-> "none", v |-> 0]
\* A set: json.dumps raises TypeError.
PySet == [t |-> "set", v |-> 0]
\* A list that contains itself: json.dumps raises ValueError.
PyCyclic == [t |-> "cyclic", v |-> 0]

PyTrue == PyBool(TRUE)
PyFalse == PyBool(FALSE)
EmptyStr == PyStr(<<>>)

\* bool is a subclass of int: True == 1 and False == 0.
IsNumber(x) == x.t \in {"bool", "int"}
NumOf(x) == IF x.t = "bool" THEN (IF x.v THEN 1 ELSE 0) ELSE x.v
\* x == y
PyEq(x, y) == IF IsNumber(x) /\ IsNumber(y) THEN NumOf(x) = NumOf(y) ELSE x = y
\* x in [..]: list membership compares with ==
PyIn(x, S) == \E y \in S : PyEq(x, y)
\* bool(x)
Truthy(x) ==
    CASE x.t = "bool" -> x.v
      [] x.t = "int" -> x.v # 0
      [] x.t \in {"str", "list"} -> x.v # <<>>
      [] x.t = "none" -> FALSE
      [] OTHER -> TRUE

\* json.dumps(val): "ok" or the exception it raises.
json_dumps(val) ==
    CASE val.t = "set" -> "TypeError"
      [] val.t = "cyclic" -> "ValueError"
      [] OTHER -> "ok"

\* _is_jsonable: True, False, or the exception that escapes its except clause.
_is_jsonable(val) ==
    LET r == json_dumps(val)
    IN  IF r = "ok" THEN "True"
        ELSE IF r \in {"TypeError", "OverflowError"} THEN "False"
        ELSE r

_null_to_empty(val) == IF ~Truthy(val) THEN EmptyStr ELSE val

\* ---------------------------------------------------------- comparators
\* A compliance_details mapping: the five keys of a verdict. Absent marks a key
\* the mapping does not hold (only a custom function can leave one out).
Absent == [t |-> "absent", v |-> 0]
Details(c, ci, o, m, e) ==
    [compliance |-> c, compliance_int |-> ci, ordered |-> o, missing |-> m, extra |-> e]

\* netutils diff_network_config(compare, base): the lines of compare that base lacks.
diff_network_config(compare, base) ==
    SelectSeq(compare, LAMBDA l : l \notin Range(base))

\* netutils feature_compliance(feature, actual, intended, network_os), on the
\* lines of the feature's section.
feature_compliance(ordered, actual, intended) ==
    LET missing == diff_network_config(intended, actual)
        extra == diff_network_config(actual, intended)
        ordered_compliant == (intended = actual)
        unordered_compliant == (missing = <<>> /\ extra = <<>>)
    IN  [compliant |-> IF ordered THEN ordered_compliant ELSE unordered_compliant,
         ordered_compliant |-> ordered_compliant,
         missing |-> PyStr(missing),
         extra |-> PyStr(extra)]

\* The CLI comparator reporting a compliant configuration as ordered, whatever
\* the library's ordered_compliant says.
_get_cli_compliance_ordered_when_compliant(obj, rule) ==
    LET value == feature_compliance(rule.config_ordered, obj.actual, obj.intended)
        compliance == value.compliant
    IN  Details(PyBool(compliance),
                IF compliance THEN PyInt(1) ELSE PyInt(0),
                IF compliance THEN PyTrue ELSE PyBool(value.ordered_compliant),
                _null_to_empty(value.missing),
                _null_to_empty(value.extra))

_get_cli_compliance(obj, rule) ==
    LET value == feature_compliance(rule.config_ordered, obj.actual, obj.intended)
        compliance == value.compliant
    IN  Details(PyBool(compliance),
                IF compliance THEN PyInt(1) ELSE PyInt(0),
                PyBool(value.ordered_compliant),
                _null_to_empty(value.missing),
                _null_to_empty(value.extra))

\* The paths root[k] (0-based, ascending) of the positions S of the list q.
Paths(q, S) ==
    LET F[k \in 0..Len(q)] ==
            IF k = 0 THEN <<>>
            ELSE IF k \in S THEN Append(F[k - 1], k - 1) ELSE F[k - 1]
    IN  F[Len(q)]

Count(q, x) == Cardinality({k \in DOMAIN q : q[k] = x})
Min(a, b) == IF a <= b THEN a ELSE b

\* DeepDiff(t1, t2, ignore_order=..., report_repetition=True) of two lists of
\* numbers. In order, items are compared position by position. Ignoring order,
\* the lists are compared as collections: an item held by both a different
\* number of times is a repetition_change; an item only t1 holds and one only t2
\* holds are paired (any two numbers are closer than cutoff_distance_for_pairs)
\* and reported as values_changed at the t1 positions, unless the share of
\* unmatched items exceeds cutoff_intersection_for_pairs (0.7). With the three
\* values of JsonItems a pairing has one unmatched value on each side.
DeepDiff(t1, t2, ignore_order) ==
    IF ignore_order
    THEN LET hashes_added == Range(t2) \ Range(t1)
             hashes_removed == Range(t1) \ Range(t2)
             unmatched == Cardinality(hashes_added) + Cardinality(hashes_removed)
             hashed == Cardinality(Range(t1)) + Cardinality(Range(t2)) + 1
             paired == /\ Cardinality(hashes_added) = 1
                       /\ Cardinality(hashes_removed) = 1
                       /\ 10 * unmatched <= 7 * hashed
         IN  [dictionary_item_added |-> <<>>,
              dictionary_item_removed |-> <<>>,
              type_changes |-> <<>>,
              iterable_item_added |->
                  IF paired THEN <<>>
                  ELSE Paths(t2, {k \in DOMAIN t2 : t2[k] \in hashes_added}),
              iterable_item_removed |->
                  IF paired THEN <<>>
                  ELSE Paths(t1, {k \in DOMAIN t1 : t1[k] \in hashes_removed}),
              values_changed |->
                  IF paired THEN Paths(t1, {k \in DOMAIN t1 : t1[k] \in hashes_removed})
                  ELSE <<>>,
              repetition_change |->
                  Paths(t1, {k \in DOMAIN t1 : /\ t1[k] \in Range(t2)
                                              /\ Count(t1, t1[k]) # Count(t2, t1[k])
                                              /\ \A j \in 1..(k - 1) : t1[j] # t1[k]})]
    ELSE [dictionary_item_added |-> <<>>,
          dictionary_item_removed |-> <<>>,
          type_changes |-> <<>>,
          iterable_item_added |-> Paths(t2, {k \in DOMAIN t2 : k > Len(t1)}),
          iterable_item_removed |-> Paths(t1, {k \in DOMAIN t1 : k > Len(t2)}),
          values_changed |->
              Paths(t1, {k \in DOMAIN t1 : k <= Min(Len(t1), Len(t2)) /\ t1[k] # t2[k]}),
          repetition_change |-> <<>>]

\* `not diff`
DiffIsEmpty(diff) == \A f \in DOMAIN diff : diff[f] = <<>>

\* A JSON document: a dict (key -> document) or a list of numbers.
JDict(f) == [t |-> "dict", v |-> f]
JList(q) == [t |-> "list", v |-> q]
EmptyDict == JDict(<<>>)

\* The steps of a diff path: root['key'] and root[index].
Key(k) == [key |-> k]
Index(n) == [index |-> n]

\* The order in which a dict's keys are visited.
KeyOrder == <<"ntp", "servers", "snmp">>

NoDiff ==
    [dictionary_item_added |-> <<>>, dictionary_item_removed |-> <<>>,
     type_changes |-> <<>>, iterable_item_added |-> <<>>,
     iterable_item_removed |-> <<>>, values_changed |-> <<>>,
     repetition_change |-> <<>>]

\* Two diffs as one report: each kind keeps the order of discovery.
MergeDiff(d, e) == [f \in DOMAIN NoDiff |-> d[f] \o e[f]]

\* The paths of a list diff under the path of the list.
Under(path, d) ==
    [f \in DOMAIN NoDiff |-> [k \in DOMAIN d[f] |-> Append(path, Index(d[f][k]))]]

\* DeepDiff(t1, t2, ignore_order=..., report_repetition=True) of two documents,
\* t1 and t2 being the values found at path: values of different types are a
\* type_changes at path; lists are diffed as above; of two dicts, the keys only
\* one holds are dictionary_item_removed / dictionary_item_added, and the
\* values under a key both hold are diffed in turn (DiffKeys, over the first n
\* keys of KeyOrder).
RECURSIVE DeepDiffDocument(_, _, _, _)
RECURSIVE DiffKeys(_, _, _, _, _)
DeepDiffDocument(path, t1, t2, ignore_order) ==
    IF t1.t # t2.t THEN [NoDiff EXCEPT !.type_changes = <<path>>]
    ELSE IF t1.t = "list" THEN Under(path, DeepDiff(t1.v, t2.v, ignore_order))
    ELSE DiffKeys(path, t1, t2, ignore_order, Len(KeyOrder))

DiffKeys(path, t1, t2, ignore_order, n) ==
    IF n = 0 THEN NoDiff
    ELSE LET k == KeyOrder[n]
             at == Append(path, Key(k))
             here ==
                 IF k \in DOMAIN t1.v /\ k \in DOMAIN t2.v
                 THEN DeepDiffDocument(at, t1.v[k], t2.v[k], ignore_order)
                 ELSE IF k \in DOMAIN t2.v
                 THEN [NoDiff EXCEPT !.dictionary_item_added = <<at>>]
                 ELSE IF k \in DOMAIN t1.v
                 THEN [NoDiff EXCEPT !.dictionary_item_removed = <<at>>]
                 ELSE NoDiff
         IN  MergeDiff(DiffKeys(path, t1, t2, ignore_order, n - 1), here)

\* _normalize_diff without the paths whose type changed.
_normalize_diff_no_types(diff, path_to_diff) ==
    LET dictionary_items == IF path_to_diff = "added" THEN diff.dictionary_item_added
                            ELSE diff.dictionary_item_removed
        list_items == IF path_to_diff = "added" THEN diff.iterable_item_added
                      ELSE diff.iterable_item_removed
    IN  PyList(dictionary_items \o list_items \o diff.values_changed)

\* dictionary items, then list items, then values_changed, then type_changes.
_normalize_diff(diff, path_to_diff) ==
    LET dictionary_items == IF path_to_diff = "added" THEN diff.dictionary_item_added
                            ELSE diff.dictionary_item_removed
        list_items == IF path_to_diff = "added" THEN diff.iterable_item_added
                      ELSE diff.iterable_item_removed
    IN  PyList(dictionary_items \o list_items \o diff.values_changed \o diff.type_changes)

\* The JSON comparator judging by the normalized lists instead of the diff: a
\* diff that yields neither a missing nor an extra path counts as compliant.
_get_json_compliance_by_paths(obj, rule) ==
    LET diff == DeepDiff(obj.actual, obj.intended, Truthy(obj.ordered))
    IN  IF /\ _normalize_diff(diff, "added") = PyList(<<>>)
           /\ _normalize_diff(diff, "removed") = PyList(<<>>)
        THEN Details(PyTrue, PyInt(1), PyTrue, EmptyStr, EmptyStr)
        ELSE Details(PyFalse, PyInt(0), PyFalse,
                     _null_to_empty(_normalize_diff(diff, "added")),
                     _null_to_empty(_normalize_diff(diff, "removed")))

\* ignore_order is the record's own `ordered` field, not the rule's config_ordered.
_get_json_compliance(obj, rule) ==
    LET diff == DeepDiff(obj.actual, obj.intended, Truthy(obj.ordered))
    IN  IF DiffIsEmpty(diff)
        THEN Details(PyTrue, PyInt(1), PyTrue, EmptyStr, EmptyStr)
        ELSE Details(PyFalse, PyInt(0), PyFalse,
                     _null_to_empty(_normalize_diff(diff, "added")),
                     _null_to_empty(_normalize_diff(diff, "removed")))

\* _get_json_compliance on a record whose actual and intended are documents.
_get_json_compliance_document(obj, rule) ==
    LET diff == DeepDiffDocument(<<>>, obj.actual, obj.intended, Truthy(obj.ordered))
    IN  IF DiffIsEmpty(diff)
        THEN Details(PyTrue, PyInt(1), PyTrue, EmptyStr, EmptyStr)
        ELSE Details(PyFalse, PyInt(0), PyFalse,
                     _null_to_empty(_normalize_diff(diff, "added")),
                     _null_to_empty(_normalize_diff(diff, "removed")))

\* ------------------------------------------------------------ validator
VerdictKeys == <<"compliance", "compliance_int", "ordered", "missing", "extra">>

NoError == [exc |-> "none", msg |-> "", key |-> "", expected |-> "", value |-> PyNone]
Raise(exc, msg, key, expected, value) ==
    [exc |-> exc, msg |-> msg, key |-> key, expected |-> expected, value |-> value]

\* The first key of VerdictKeys the mapping lacks (0: none).
FirstMissingKey(d) ==
    LET lacking == {k \in 1..Len(VerdictKeys) : d[VerdictKeys[k]] = Absent}
    IN  IF lacking = {} THEN 0 ELSE CHOOSE k \in lacking : \A j \in lacking : k <= j

\* The `missing`/`extra` loop body for one key: the error it raises, or NoError.
CheckStrOrJson(d, key) ==
    IF d[key].t = "str" THEN NoError
    ELSE LET j == _is_jsonable(d[key])
         IN  IF j = "True" THEN NoError
             ELSE IF j = "False"
                  THEN Raise("ValidationError", "VALIDATION_MSG", key, "String or Json", d[key])
                  ELSE Raise(j, "", key, "", d[key])

\* The validator with the type checks of the keys it finds ahead of the key check.
_verify_get_custom_compliance_data_types_first(d) ==
    IF d.compliance # Absent /\ ~PyIn(d.compliance, {PyTrue, PyFalse})
    THEN Raise("ValidationError", "VALIDATION_MSG", "compliance", "Boolean", d.compliance)
    ELSE IF d.ordered # Absent /\ ~PyIn(d.ordered, {PyTrue, PyFalse})
    THEN Raise("ValidationError", "VALIDATION_MSG", "ordered", "Boolean", d.ordered)
    ELSE IF d.compliance_int # Absent /\ ~PyIn(d.compliance_int, {PyInt(0), PyInt(1)})
    THEN Raise("ValidationError", "VALIDATION_MSG", "compliance_int", "0 or 1", d.compliance_int)
    ELSE IF FirstMissingKey(d) # 0
    THEN Raise("ValidationError", "MISSING_MSG", VerdictKeys[FirstMissingKey(d)], "", PyNone)
    ELSE IF CheckStrOrJson(d, "missing") # NoError
    THEN CheckStrOrJson(d, "missing")
    ELSE CheckStrOrJson(d, "extra")

_verify_get_custom_compliance_data(d) ==
    IF FirstMissingKey(d) # 0
    THEN Raise("ValidationError", "MISSING_MSG", VerdictKeys[FirstMissingKey(d)], "", PyNone)
    ELSE IF ~PyIn(d.compliance, {PyTrue, PyFalse})
    THEN Raise("ValidationError", "VALIDATION_MSG", "compliance", "Boolean", d.compliance)
    ELSE IF ~PyIn(d.ordered, {PyTrue, PyFalse})
    THEN Raise("ValidationError", "VALIDATION_MSG", "ordered", "Boolean", d.ordered)
    ELSE IF ~PyIn(d.compliance_int, {PyInt(0), PyInt(1)})
    THEN Raise("ValidationError", "VALIDATION_MSG", "compliance_int", "0 or 1", d.compliance_int)
    ELSE IF CheckStrOrJson(d, "missing") # NoError
    THEN CheckStrOrJson(d, "missing")
    ELSE CheckStrOrJson(d, "extra")

\* ------------------------------------------------------------- registry
\* PLUGIN_CFG.get("get_custom_compliance") / .get("get_custom_remediation"):
\* whether an (importable) dotted path is configured for each.
PluginCfgs == [get_custom_compliance : BOOLEAN, get_custom_remediation : BOOLEAN]

BuiltinFunctions ==
    [k \in {"cli", "json", "hierconfig"} |->
        CASE k = "cli" -> "_get_cli_compliance"
          [] k = "json" -> "_get_json_compliance"
          [] k = "hierconfig" -> "_get_hierconfig_remediation"]

\* CUSTOM_FUNCTIONS: the kind each configured custom function is registered under.
CUSTOM_FUNCTIONS ==
    [f \in {"get_custom_compliance", "get_custom_remediation"} |->
        IF f = "get_custom_compliance" THEN "custom" ELSE "custom_remediation"]

\* The module-level construction of FUNC_MAPPER.
BuildFuncMapper(cfg) ==
    LET configured == {f \in DOMAIN CUSTOM_FUNCTIONS : cfg[f]}
        kinds == DOMAIN BuiltinFunctions \cup {CUSTOM_FUNCTIONS[f] : f \in configured}
    IN  [k \in kinds |->
            IF k \in DOMAIN BuiltinFunctions THEN BuiltinFunctions[k]
            ELSE CHOOSE f \in configured : CUSTOM_FUNCTIONS[f] = k]

\* What PLUGIN_CFG holds for a custom function: nothing ("unset"), a dotted
\* path import_string resolves ("importable"), or one it cannot ("broken").
Settings == [DOMAIN CUSTOM_FUNCTIONS -> {"unset", "importable", "broken"}]
FullSettings == [f \in DOMAIN CUSTOM_FUNCTIONS |-> "importable"]

\* The order in which the loop visits CUSTOM_FUNCTIONS.items().
CustomFunctionOrder == <<"get_custom_compliance", "get_custom_remediation">>

\* The process: importing models.py ("starting"), serving evaluations, or
\* failed at import with the exception err raised from the exception cause.
Starting == [phase |-> "starting", err |-> NoError, cause |-> "none"]
Serving == [phase |-> "serving", err |-> NoError, cause |-> "none"]
Failed(err, cause) == [phase |-> "failed", err |-> err, cause |-> cause]

\* FUNC_MAPPER while models.py is not imported: no kind is bound.
Unbound == [k \in {} |-> ""]

\* The construction of FUNC_MAPPER skipping a custom function that import_string
\* cannot resolve instead of raising.
ImportRegistry_swallow(settings) ==
    [process |-> Serving,
     FUNC_MAPPER |-> BuildFuncMapper([f \in DOMAIN settings |->
                                         settings[f] = "importable"])]

\* The module-level construction of FUNC_MAPPER under the settings: the
\* process it leaves and the registry. The first configured function, in loop
\* order, that import_string cannot resolve ends the import of the module.
ImportRegistry(settings) ==
    LET broken == {n \in DOMAIN CustomFunctionOrder :
                       settings[CustomFunctionOrder[n]] = "broken"}
    IN  IF broken # {}
        THEN LET n == CHOOSE k \in broken : \A j \in broken : k <= j
             IN  [process |-> Failed(Raise("Exception", "IMPORT_ISSUE",
                                           CustomFunctionOrder[n], "", PyNone),
                                     "ImportError"),
                  FUNC_MAPPER |-> Unbound]
        ELSE [process |-> Serving,
              FUNC_MAPPER |-> BuildFuncMapper([f \in DOMAIN settings |->
                                                  settings[f] = "importable"])]

\* ---------------------------------------------------------------- state
VARIABLES
    PLUGIN_CFG,   \* the plugin settings: what each custom function is set to
    process,      \* the process: importing models.py, serving, or failed to start
    FUNC_MAPPER,  \* the registry: kind -> function
    rule,         \* the ComplianceRule row of the record
    env,          \* the rule's platform: its RemediationSetting, its hierconfig mapping
    obj,          \* the ConfigCompliance instance in memory
    db,           \* its stored row (NoRow before the first successful save)
    last,         \* what the most recent call did
    threads,      \* the evaluations running side by side, one per record
    golden_configs, \* the GoldenConfig rows of one device, by primary key
    tasks,        \* the run_template executions for that device
    clock         \* the timestamp ("now") of the latest job started

vars == <<PLUGIN_CFG, process, FUNC_MAPPER, rule, env, obj, db, last, threads,
         golden_configs, tasks, clock>>

Rules(types) ==
    [config_type : types, config_ordered : BOOLEAN,
     custom_compliance : BOOLEAN, config_remediation : BOOLEAN]

\* remediation_setting: the remediation_type of the platform's RemediationSetting,
\* "none" when the platform has none; hier_os: whether HIERCONFIG_LIB_MAPPER_REVERSE
\* maps the device's platform slug.
Envs == [remediation_setting : {"none", "hierconfig", "custom_remediation"},
         hier_os : BOOLEAN]

\* A ConfigCompliance(...) not yet saved: the model fields' defaults.
NewRecord ==
    [actual |-> <<>>, intended |-> <<>>, compliance |-> PyNone,
     compliance_int |-> PyNone, ordered |-> PyTrue, missing |-> EmptyStr,
     extra |-> EmptyStr, remediation |-> PyNone]

\* No evaluation runs beside the one under study.
NoThreads == <<>>
\* No run_template execution.
NoTasks == <<>>

NoRow == [NewRecord EXCEPT !.compliance = Absent]

\* What a custom compliance function may return, in the save() model.
CustomDetails ==
    {Details(PyTrue, PyInt(1), PyTrue, EmptyStr, EmptyStr),
     Details(PyFalse, PyInt(0), PyFalse, PyStr(<<1>>), EmptyStr),
     Details(PyTrue, PyInt(0), PyTrue, EmptyStr, EmptyStr),
     Details(PyTrue, PyInt(1), PyTrue, PyStr(<<1>>), EmptyStr),
     Details(PyFalse, PyInt(2), PyFalse, EmptyStr, EmptyStr),
     Details(PyTrue, PyInt(1), PyTrue, EmptyStr, Absent)}

\* What a custom remediation function may return.
CustomRemediations == {PyStr(<<1>>)}

\* ---------------------------------------------------------- remediators
\* hier_config's remediation of actual towards intended: the removal (-l) of the
\* lines only actual has, then the lines only intended has.
HierRemediation(actual, intended) ==
    LET removed == diff_network_config(actual, intended)
    IN  PyStr([k \in DOMAIN removed |-> 0 - removed[k]] \o diff_network_config(intended, actual))

\* out.call: what the hier_config library does: "ok", "host_error" (HierConfigHost
\* cannot be instantiated) or "load_error" (a load or remediation call raises).
_get_hierconfig_remediation(o, e, out) ==
    IF ~e.hier_os
    THEN [err |-> Raise("ValidationError", "NOT_SUPPORTED_BY_HIERCONFIG", "platform", "", PyNone),
          value |-> PyNone]
    ELSE IF e.remediation_setting = "none"
    THEN [err |-> Raise("ValidationError", "NO_REMEDIATION_SETTINGS", "platform", "", PyNone),
          value |-> PyNone]
    ELSE IF out.call = "host_error"
    THEN [err |-> Raise("Exception", "CANNOT_INSTANTIATE_HIERCONFIG", "device", "", PyNone),
          value |-> PyNone]
    ELSE IF out.call = "load_error"
    THEN [err |-> Raise("LibraryError", "", "", "", PyNone), value |-> PyNone]
    ELSE [err |-> NoError, value |-> HierRemediation(o.actual, o.intended)]

\* The operator's remediation function: it raises, or its value is taken as is.
CustomRemediation(out) ==
    IF out.call = "raise"
    THEN [err |-> Raise("CustomError", "", "", "", PyNone), value |-> PyNone]
    ELSE [err |-> NoError, value |-> out.value]

\* --------------------------------------------------------- orchestrator
\* The comparator a built-in kind is bound to, applied to the record.
CallComparator(fn, o, r) ==
    IF fn = "_get_cli_compliance" THEN _get_cli_compliance(o, r)
    ELSE _get_json_compliance(o, r)

\* The verdict fields of compliance_details copied onto the record.
StoreDetails(o, d) ==
    [o EXCEPT !.compliance = d.compliance, !.compliance_int = d.compliance_int,
              !.ordered = d.ordered, !.missing = d.missing, !.extra = d.extra]

\* compliance_on_save using the comparator of the rule's config_type when no
\* custom compliance function is registered.
compliance_on_save_fallback(o, r, fm, cout) ==
    IF r.custom_compliance /\ "custom" \in DOMAIN fm
    THEN IF cout.call = "raise"
         THEN [err |-> Raise("CustomError", "", "", "", PyNone),
               obj |-> o, comparator |-> fm["custom"], validated |-> FALSE]
         ELSE LET v == _verify_get_custom_compliance_data(cout.details)
              IN  [err |-> v,
                   obj |-> IF v = NoError THEN StoreDetails(o, cout.details) ELSE o,
                   comparator |-> fm["custom"], validated |-> TRUE]
    ELSE [err |-> NoError,
          obj |-> StoreDetails(o, CallComparator(fm[r.config_type], o, r)),
          comparator |-> fm[r.config_type], validated |-> FALSE]

\* compliance_on_save copying the custom result onto the record ahead of its validation.
compliance_on_save_copy_first(o, r, fm, cout) ==
    IF r.custom_compliance
    THEN IF "custom" \notin DOMAIN fm
         THEN [err |-> Raise("ValidationError", "NO_GET_CUSTOM_COMPLIANCE", "", "", PyNone),
               obj |-> o, comparator |-> "none", validated |-> FALSE]
         ELSE IF cout.call = "raise"
         THEN [err |-> Raise("CustomError", "", "", "", PyNone),
               obj |-> o, comparator |-> fm["custom"], validated |-> FALSE]
         ELSE [err |-> _verify_get_custom_compliance_data(cout.details),
               obj |-> IF FirstMissingKey(cout.details) = 0
                       THEN StoreDetails(o, cout.details) ELSE o,
               comparator |-> fm["custom"], validated |-> TRUE]
    ELSE [err |-> NoError,
          obj |-> StoreDetails(o, CallComparator(fm[r.config_type], o, r)),
          comparator |-> fm[r.config_type], validated |-> FALSE]

\* ConfigCompliance.compliance_on_save. cout: what the custom function does
\* when called: it raises, or returns the mapping cout.details.
compliance_on_save(o, r, fm, cout) ==
    IF r.custom_compliance
    THEN IF "custom" \notin DOMAIN fm
         THEN [err |-> Raise("ValidationError", "NO_GET_CUSTOM_COMPLIANCE", "", "", PyNone),
               obj |-> o, comparator |-> "none", validated |-> FALSE]
         ELSE IF cout.call = "raise"
         THEN [err |-> Raise("CustomError", "", "", "", PyNone),
               obj |-> o, comparator |-> fm["custom"], validated |-> FALSE]
         ELSE LET v == _verify_get_custom_compliance_data(cout.details)
              IN  [err |-> v,
                   obj |-> IF v = NoError THEN StoreDetails(o, cout.details) ELSE o,
                   comparator |-> fm["custom"], validated |-> TRUE]
    ELSE [err |-> NoError,
          obj |-> StoreDetails(o, CallComparator(fm[r.config_type], o, r)),
          comparator |-> fm[r.config_type], validated |-> FALSE]

\* remediation_on_save returning from the disabled branch without clearing the field.
remediation_on_save_stale(o, r, e, fm, rout) ==
    IF Truthy(o.compliance)
    THEN [err |-> NoError, obj |-> [o EXCEPT !.remediation = PyNone], remediator |-> "none"]
    ELSE IF ~r.config_remediation
    THEN [err |-> NoError, obj |-> o, remediator |-> "none"]
    ELSE IF e.remediation_setting = "none"
    THEN [err |-> Raise("ValidationError", "NO_REMEDIATION_SETTINGS", "platform", "", PyNone),
          obj |-> o, remediator |-> "none"]
    ELSE IF e.remediation_setting \notin DOMAIN fm
    THEN [err |-> Raise("ValidationError", "NO_REMEDIATION_FUNCTION", e.remediation_setting, "", PyNone),
          obj |-> o, remediator |-> "none"]
    ELSE LET fn == fm[e.remediation_setting]
             res == IF fn = "_get_hierconfig_remediation"
                    THEN _get_hierconfig_remediation(o, e, rout)
                    ELSE CustomRemediation(rout)
         IN  [err |-> res.err,
              obj |-> IF res.err = NoError THEN [o EXCEPT !.remediation = res.value] ELSE o,
              remediator |-> fn]

\* remediation_on_save without the early return of a compliant record.
remediation_on_save_always(o, r, e, fm, rout) ==
    IF ~r.config_remediation
    THEN [err |-> NoError, obj |-> [o EXCEPT !.remediation = PyNone], remediator |-> "none"]
    ELSE IF e.remediation_setting = "none"
    THEN [err |-> Raise("ValidationError", "NO_REMEDIATION_SETTINGS", "platform", "", PyNone),
          obj |-> o, remediator |-> "none"]
    ELSE IF e.remediation_setting \notin DOMAIN fm
    THEN [err |-> Raise("ValidationError", "NO_REMEDIATION_FUNCTION", e.remediation_setting, "", PyNone),
          obj |-> o, remediator |-> "none"]
    ELSE LET fn == fm[e.remediation_setting]
             res == IF fn = "_get_hierconfig_remediation"
                    THEN _get_hierconfig_remediation(o, e, rout)
                    ELSE CustomRemediation(rout)
         IN  [err |-> res.err,
              obj |-> IF res.err = NoError THEN [o EXCEPT !.remediation = res.value] ELSE o,
              remediator |-> fn]

\* remediation_on_save treating a remediation type without a registered function
\* as nothing to remediate.
remediation_on_save_soft(o, r, e, fm, rout) ==
    IF Truthy(o.compliance) \/ ~r.config_remediation
    THEN [err |-> NoError, obj |-> [o EXCEPT !.remediation = PyNone], remediator |-> "none"]
    ELSE IF e.remediation_setting = "none"
    THEN [err |-> Raise("ValidationError", "NO_REMEDIATION_SETTINGS", "platform", "", PyNone),
          obj |-> o, remediator |-> "none"]
    ELSE IF e.remediation_setting \notin DOMAIN fm
    THEN [err |-> NoError, obj |-> [o EXCEPT !.remediation = PyNone], remediator |-> "none"]
    ELSE LET fn == fm[e.remediation_setting]
             res == IF fn = "_get_hierconfig_remediation"
                    THEN _get_hierconfig_remediation(o, e, rout)
                    ELSE CustomRemediation(rout)
         IN  [err |-> res.err,
              obj |-> IF res.err = NoError THEN [o EXCEPT !.remediation = res.value] ELSE o,
              remediator |-> fn]

\* remediation_on_save running the hierarchical strategy when the platform has no
\* remediation settings, so that the strategy's own checks come first.
remediation_on_save_strategy_first(o, r, e, fm, rout) ==
    IF Truthy(o.compliance) \/ ~r.config_remediation
    THEN [err |-> NoError, obj |-> [o EXCEPT !.remediation = PyNone], remediator |-> "none"]
    ELSE IF e.remediation_setting = "none"
    THEN [err |-> _get_hierconfig_remediation(o, e, rout).err,
          obj |-> o, remediator |-> "_get_hierconfig_remediation"]
    ELSE IF e.remediation_setting \notin DOMAIN fm
    THEN [err |-> Raise("ValidationError", "NO_REMEDIATION_FUNCTION", e.remediation_setting, "", PyNone),
          obj |-> o, remediator |-> "none"]
    ELSE LET fn == fm[e.remediation_setting]
             res == IF fn = "_get_hierconfig_remediation"
                    THEN _get_hierconfig_remediation(o, e, rout)
                    ELSE CustomRemediation(rout)
         IN  [err |-> res.err,
              obj |-> IF res.err = NoError THEN [o EXCEPT !.remediation = res.value] ELSE o,
              remediator |-> fn]

\* ConfigCompliance.remediation_on_save. rout: what the remediator does when called.
remediation_on_save(o, r, e, fm, rout) ==
    IF Truthy(o.compliance)
    THEN [err |-> NoError, obj |-> [o EXCEPT !.remediation = PyNone], remediator |-> "none"]
    ELSE IF ~r.config_remediation
    THEN [err |-> NoError, obj |-> [o EXCEPT !.remediation = PyNone], remediator |-> "none"]
    ELSE IF e.remediation_setting = "none"
    THEN [err |-> Raise("ValidationError", "NO_REMEDIATION_SETTINGS", "platform", "", PyNone),
          obj |-> o, remediator |-> "none"]
    ELSE IF e.remediation_setting \notin DOMAIN fm
    THEN [err |-> Raise("ValidationError", "NO_REMEDIATION_FUNCTION", e.remediation_setting, "", PyNone),
          obj |-> o, remediator |-> "none"]
    ELSE LET fn == fm[e.remediation_setting]
             res == IF fn = "_get_hierconfig_remediation"
                    THEN _get_hierconfig_remediation(o, e, rout)
                    ELSE CustomRemediation(rout)
         IN  [err |-> res.err,
              obj |-> IF res.err = NoError THEN [o EXCEPT !.remediation = res.value] ELSE o,
              remediator |-> fn]

\* Whether compliance_on_save calls the custom function, and what it may do.
NoDetails == Details(Absent, Absent, Absent, Absent, Absent)
NotCalled == [call |-> "not_called", details |-> NoDetails]
Returns(d) == [call |-> "return", details |-> d]
CustomOutcomes(r, fm, returned) ==
    IF r.custom_compliance /\ "custom" \in DOMAIN fm
    THEN {Returns(d) : d \in returned} \cup {[call |-> "raise", details |-> NoDetails]}
    ELSE {NotCalled}

\* Whether remediation_on_save calls a remediator, and what it may do.
RemediatorOutcomes(o, r, e, fm) ==
    IF Truthy(o.compliance) \/ ~r.config_remediation
       \/ e.remediation_setting \notin DOMAIN fm
    THEN {[call |-> "not_called", value |-> PyNone]}
    ELSE IF fm[e.remediation_setting] = "_get_hierconfig_remediation"
    THEN (IF e.hier_os
          THEN {[call |-> c, value |-> PyNone] : c \in {"ok", "host_error", "load_error"}}
          ELSE {[call |-> "not_reached", value |-> PyNone]})
    ELSE {[call |-> "return", value |-> x] : x \in CustomRemediations}
         \cup {[call |-> "raise", value |-> PyNone]}

\* ConfigCompliance.save on the record o: compliance_on_save, remediation_on_save,
\* then super().save(), which an exception of either step skips.
save(o, r, e, fm, cout, rout) ==
    LET c == compliance_on_save(o, r, fm, cout)
        m == IF c.err = NoError
             THEN remediation_on_save(c.obj, r, e, fm, rout)
             ELSE [err |-> c.err, obj |-> c.obj, remediator |-> "none"]
    IN  [err |-> m.err, obj |-> m.obj, persisted |-> (m.err = NoError),
         comparator |-> c.comparator, validated |-> c.validated,
         remediator |-> m.remediator]

\* What the most recent call did: the exception save() raised (NoError: none),
\* whether super().save() ran, the functions invoked, what the custom compliance
\* function returned, and the remediation and the ordered field the instance
\* held before the call.
NoCall == [op |-> "none", err |-> NoError, persisted |-> FALSE, comparator |-> "none",
           validated |-> FALSE, remediator |-> "none", cout |-> NotCalled,
           prior_remediation |-> PyNone, prior_ordered |-> PyTrue]

ConfigTypes == {"cli", "json"}

\* A deployment with both custom functions configured.
FullCfg == [get_custom_compliance |-> TRUE, get_custom_remediation |-> TRUE]
\* A platform hier_config supports, remediated by hier_config.
HierEnv == [remediation_setting |-> "hierconfig", hier_os |-> TRUE]

Init ==
    /\ PLUGIN_CFG = FullSettings
    /\ process = Serving
    /\ FUNC_MAPPER = BuildFuncMapper(FullCfg)
    /\ rule \in Rules(ConfigTypes)
    /\ env \in Envs
    /\ obj = NewRecord
    /\ db = NoRow
    /\ last = NoCall
    /\ threads = NoThreads
    /\ golden_configs = <<>>
    /\ tasks = NoTasks
    /\ clock = 0

\* The instance as the caller gets it: created, or loaded from its stored row.
Stored == IF db = NoRow THEN NewRecord ELSE db

\* A save() whose custom comparator lookup takes the function out of the
\* registry (FUNC_MAPPER.pop in place of FUNC_MAPPER.get).
Commit_pop(op, cout, s) ==
    /\ obj' = s.obj
    /\ db' = IF s.persisted THEN s.obj ELSE db
    /\ last' = [op |-> op, err |-> s.err, persisted |-> s.persisted,
                comparator |-> s.comparator, validated |-> s.validated,
                remediator |-> s.remediator, cout |-> cout,
                prior_remediation |-> obj.remediation, prior_ordered |-> obj.ordered]
    /\ FUNC_MAPPER' = IF s.comparator = "get_custom_compliance"
                      THEN [k \in DOMAIN FUNC_MAPPER \ {"custom"} |-> FUNC_MAPPER[k]]
                      ELSE FUNC_MAPPER
    /\ UNCHANGED <<PLUGIN_CFG, process, rule, env, threads, golden_configs, tasks, clock>>

\* What a call of save() with the outcome s leaves: the instance as save() left
\* it, the row super().save() wrote if it ran, and the record of the call.
Commit(op, cout, s) ==
    /\ obj' = s.obj
    /\ db' = IF s.persisted THEN s.obj ELSE db
    /\ last' = [op |-> op, err |-> s.err, persisted |-> s.persisted,
                comparator |-> s.comparator, validated |-> s.validated,
                remediator |-> s.remediator, cout |-> cout,
                prior_remediation |-> obj.remediation, prior_ordered |-> obj.ordered]
    /\ UNCHANGED <<PLUGIN_CFG, process, FUNC_MAPPER, rule, env, threads, golden_configs, tasks, clock>>

\* The caller sets actual and intended on the instance and calls save(); a custom
\* compliance function, when called, raises or returns one of `returned`.
SaveFrom(op, a, i, returned) ==
    LET o == [obj EXCEPT !.actual = a, !.intended = i]
    IN  \E cout \in CustomOutcomes(rule, FUNC_MAPPER, returned) :
        \E rout \in RemediatorOutcomes(compliance_on_save(o, rule, FUNC_MAPPER, cout).obj,
                                       rule, env, FUNC_MAPPER) :
            Commit(op, cout, save(o, rule, env, FUNC_MAPPER, cout, rout))

\* An evaluation: save() on the instance the caller holds. A caller whose save()
\* raised drops the instance (Reload) before it evaluates the pair again.
Save(a, i) ==
    /\ obj = Stored
    /\ SaveFrom("save", a, i, CustomDetails)

\* After a save() that raised, the caller fetches the record again: the stored
\* row, or a new instance when there is none.
Reload ==
    /\ obj # Stored
    /\ obj' = Stored
    /\ last' = [NoCall EXCEPT !.op = "reload"]
    /\ UNCHANGED <<PLUGIN_CFG, process, FUNC_MAPPER, rule, env, db, threads, golden_configs, tasks, clock>>

\* An operator edits the rule.
EditRule(r) ==
    /\ r # rule
    /\ rule' = r
    /\ last' = [NoCall EXCEPT !.op = "edit"]
    /\ UNCHANGED <<PLUGIN_CFG, process, FUNC_MAPPER, env, obj, db, threads, golden_configs, tasks, clock>>

Next ==
    \/ \E a \in Configs, i \in Configs : Save(a, i)
    \/ Reload
    \/ \E r \in Rules(ConfigTypes) : EditRule(r)

Spec == Init /\ [][Next]_vars

\* ------------------------------------------- the JSON comparator alone
\* JSON rules evaluated by the built-in comparator, remediation disabled.
JsonRules ==
    {r \in Rules({"json"}) : ~r.custom_compliance /\ ~r.config_remediation}

\* The pairs (actual, intended) of the record's earlier evaluation: one the JSON
\* comparator finds compliant and one it does not.
EarlierPairs == {<<<<1>>, <<1>>>>, <<<<1>>, <<2>>>>}

InitJson ==
    /\ PLUGIN_CFG = FullSettings
    /\ process = Serving
    /\ FUNC_MAPPER = BuildFuncMapper(FullCfg)
    /\ rule \in JsonRules
    /\ env = HierEnv
    /\ obj = NewRecord
    /\ db = NoRow
    /\ last = NoCall
    /\ threads = NoThreads
    /\ golden_configs = <<>>
    /\ tasks = NoTasks
    /\ clock = 0

\* The record's first evaluation.
Earlier ==
    /\ db = NoRow
    /\ obj = Stored
    /\ \E p \in EarlierPairs : SaveFrom("earlier", p[1], p[2], CustomDetails)

\* The evaluation under study: of a new record, or of one evaluated before.
Evaluate ==
    /\ last.op \in {"none", "earlier"}
    /\ obj = Stored
    /\ \E a \in JsonConfigs, i \in JsonConfigs : SaveFrom("evaluate", a, i, CustomDetails)

\* save() again on the record as it stands.
Resave ==
    /\ last.op = "evaluate"
    /\ SaveFrom("resave", obj.actual, obj.intended, CustomDetails)

NextJson ==
    \/ Earlier
    \/ Evaluate
    \/ Resave

SpecJson == InitJson /\ [][NextJson]_vars

\* ------------------------------------------------- the validator alone
\* The values a custom compliance function may put under a key (Absent: the
\* mapping lacks the key).
AnyValues ==
    {Absent, PyNone, PyTrue, PyFalse, PyInt(0), PyInt(1), PyInt(2), EmptyStr}
StrJsonValues ==
    {Absent, PyNone, PyTrue, PyInt(1), EmptyStr, PyStr(<<1>>), PyList(<<1>>),
     PySet, PyCyclic}
ValidatorDetails ==
    [compliance : AnyValues, compliance_int : AnyValues, ordered : AnyValues,
     missing : StrJsonValues, extra : StrJsonValues]

\* A rule evaluated by the custom compliance function, remediation disabled.
CustomRule ==
    [config_type |-> "cli", config_ordered |-> FALSE,
     custom_compliance |-> TRUE, config_remediation |-> FALSE]

InitValidator ==
    /\ PLUGIN_CFG = FullSettings
    /\ process = Serving
    /\ FUNC_MAPPER = BuildFuncMapper(FullCfg)
    /\ rule = CustomRule
    /\ env = HierEnv
    /\ obj = NewRecord
    /\ db = NoRow
    /\ last = NoCall
    /\ threads = NoThreads
    /\ golden_configs = <<>>
    /\ tasks = NoTasks
    /\ clock = 0

\* save() of a new record whose custom compliance function returns any d.
ValidateSave ==
    /\ last.op = "none"
    /\ \E d \in ValidatorDetails : SaveFrom("save", <<1>>, <<1>>, {d})

NextValidator == ValidateSave

SpecValidator == InitValidator /\ [][NextValidator]_vars

\* ------------------------------------------- the registry and its users
\* The configurations evaluated under each registry: an empty one and a
\* one-line one, so that a pair is equal or differs.
RegistryConfigs == {<<>>, <<1>>}

InitRegistry ==
    /\ PLUGIN_CFG \in Settings
    /\ process = Starting
    /\ FUNC_MAPPER = Unbound
    /\ rule \in Rules(ConfigTypes)
    /\ env \in Envs
    /\ obj = NewRecord
    /\ db = NoRow
    /\ last = NoCall
    /\ threads = NoThreads
    /\ golden_configs = <<>>
    /\ tasks = NoTasks
    /\ clock = 0

\* Process start: models.py is imported and FUNC_MAPPER built, or the import raises.
ImportModels ==
    /\ process.phase = "starting"
    /\ process' = ImportRegistry(PLUGIN_CFG).process
    /\ FUNC_MAPPER' = ImportRegistry(PLUGIN_CFG).FUNC_MAPPER
    /\ UNCHANGED <<PLUGIN_CFG, rule, env, obj, db, last, threads, golden_configs, tasks, clock>>

\* An evaluation by the serving process.
Serve(a, i) ==
    /\ process.phase = "serving"
    /\ Save(a, i)

\* An operator edits the platform's RemediationSetting or its hier_config mapping.
EditEnv(e) ==
    /\ e # env
    /\ env' = e
    /\ last' = [NoCall EXCEPT !.op = "edit"]
    /\ UNCHANGED <<PLUGIN_CFG, process, FUNC_MAPPER, rule, obj, db, threads, golden_configs, tasks, clock>>

NextRegistry ==
    \/ ImportModels
    \/ \E a \in RegistryConfigs, i \in RegistryConfigs : Serve(a, i)
    \/ Reload
    \/ \E r \in Rules(ConfigTypes) : EditRule(r)
    \/ \E e \in Envs : EditEnv(e)

SpecRegistry == InitRegistry /\ [][NextRegistry]_vars

\* ------------------------------------------ evaluations side by side
\* The records evaluated side by side: distinct (device, rule) pairs.
RecordIds == {1, 2}

\* The configurations they are given.
ThreadConfigs == {<<>>, <<1>>}

\* The rule and platform of a record: a built-in CLI rule remediated by
\* hier_config, a custom rule remediated by a custom function, and a built-in
\* CLI rule whose platform has no remediation settings.
ThreadSetups ==
    {[rule |-> [config_type |-> "cli", config_ordered |-> TRUE,
                custom_compliance |-> FALSE, config_remediation |-> TRUE],
      env |-> HierEnv],
     [rule |-> [config_type |-> "cli", config_ordered |-> TRUE,
                custom_compliance |-> TRUE, config_remediation |-> TRUE],
      env |-> [remediation_setting |-> "custom_remediation", hier_os |-> TRUE]],
     [rule |-> [config_type |-> "cli", config_ordered |-> TRUE,
                custom_compliance |-> FALSE, config_remediation |-> TRUE],
      env |-> [remediation_setting |-> "none", hier_os |-> TRUE]]}

\* What a custom compliance function returns here: a result the validator
\* accepts and one it rejects.
ThreadDetails ==
    {Details(PyFalse, PyInt(0), PyFalse, PyStr(<<1>>), EmptyStr),
     Details(PyTrue, PyInt(1), PyTrue, EmptyStr, Absent)}

RemediatorNotCalled == [call |-> "not_called", value |-> PyNone]

\* A caller between two evaluations of its record: the instance is the stored
\* row (a new instance before the first successful save).
IdleThread(setup, row) ==
    [pc |-> "idle", rule |-> setup.rule, env |-> setup.env,
     obj |-> IF row = NoRow THEN NewRecord ELSE row,
     begun |-> IF row = NoRow THEN NewRecord ELSE row,
     row |-> row, row_at_begin |-> row,
     cout |-> NotCalled, rout |-> RemediatorNotCalled, err |-> NoError,
     beside |-> FALSE, after_failure |-> FALSE]

\* Another record's save() is between its first and its last step.
OtherInFlight(t) ==
    \E u \in RecordIds \ {t} : threads[u].pc \in {"compliance", "remediation", "persist"}

InitConcurrent ==
    /\ PLUGIN_CFG \in {s \in Settings : s["get_custom_compliance"] = s["get_custom_remediation"]
                                        /\ s["get_custom_compliance"] # "broken"}
    /\ process = Serving
    /\ FUNC_MAPPER = ImportRegistry(PLUGIN_CFG).FUNC_MAPPER
    /\ rule \in {r \in Rules({"cli"}) : ~r.custom_compliance /\ r.config_ordered /\ r.config_remediation}
    /\ env = HierEnv
    /\ obj = NewRecord
    /\ db = NoRow
    /\ last = NoCall
    /\ threads \in [RecordIds -> {IdleThread(s, NoRow) : s \in ThreadSetups}]
    /\ golden_configs = <<>>
    /\ tasks = NoTasks
    /\ clock = 0

\* save() is called on the record's instance with its new actual and intended.
Begin(t, a, i) ==
    /\ threads[t].pc = "idle"
    /\ LET o == [threads[t].obj EXCEPT !.actual = a, !.intended = i]
       IN  threads' = [threads EXCEPT ![t] =
               [@ EXCEPT !.pc = "compliance", !.obj = o, !.begun = o,
                         !.beside = OtherInFlight(t),
                         !.after_failure = \E u \in RecordIds \ {t} : threads[u].pc = "raised"]]
    /\ UNCHANGED <<PLUGIN_CFG, process, FUNC_MAPPER, rule, env, obj, db, last, golden_configs, tasks, clock>>

\* compliance_on_save reading the actual and intended of the record whose
\* save() is in flight beside it, as if the two shared one instance.
AfterCompliance_shared(t, cout) ==
    LET th == threads[t]
        others == {u \in RecordIds \ {t} :
                       threads[u].pc \in {"compliance", "remediation", "persist"}}
        o == IF others = {} THEN th.obj
             ELSE LET u == CHOOSE u \in others : TRUE
                  IN  [th.obj EXCEPT !.actual = threads[u].obj.actual,
                                     !.intended = threads[u].obj.intended]
        c == compliance_on_save(o, th.rule, FUNC_MAPPER, cout)
    IN  [th EXCEPT !.pc = IF c.err = NoError THEN "remediation" ELSE "raised",
                   !.obj = c.obj, !.err = c.err, !.cout = cout,
                   !.beside = @ \/ OtherInFlight(t)]

\* The thread of record t after compliance_on_save (line 454).
AfterCompliance(t, cout) ==
    LET th == threads[t]
        c == compliance_on_save(th.obj, th.rule, FUNC_MAPPER, cout)
    IN  [th EXCEPT !.pc = IF c.err = NoError THEN "remediation" ELSE "raised",
                   !.obj = c.obj, !.err = c.err, !.cout = cout,
                   !.beside = @ \/ OtherInFlight(t)]

StepCompliance(t) ==
    /\ threads[t].pc = "compliance"
    /\ \E cout \in CustomOutcomes(threads[t].rule, FUNC_MAPPER, ThreadDetails) :
           threads' = [threads EXCEPT ![t] = AfterCompliance(t, cout)]
    /\ UNCHANGED <<PLUGIN_CFG, process, FUNC_MAPPER, rule, env, obj, db, last, golden_configs, tasks, clock>>

\* save() taking an exception of remediation_on_save as "no remediation" and
\* going on to super().save().
AfterRemediation_downgrade(t, rout) ==
    LET th == threads[t]
        m == remediation_on_save(th.obj, th.rule, th.env, FUNC_MAPPER, rout)
    IN  [th EXCEPT !.pc = "persist",
                   !.obj = IF m.err = NoError THEN m.obj
                           ELSE [th.obj EXCEPT !.remediation = PyNone],
                   !.err = m.err, !.rout = rout,
                   !.beside = @ \/ OtherInFlight(t)]

\* remediation_on_save deciding on the compliance the instance held when save()
\* began instead of the one compliance_on_save has just stored.
AfterRemediation_previous(t, rout) ==
    LET th == threads[t]
        m == remediation_on_save([th.obj EXCEPT !.compliance = th.begun.compliance],
                                 th.rule, th.env, FUNC_MAPPER, rout)
    IN  [th EXCEPT !.pc = IF m.err = NoError THEN "persist" ELSE "raised",
                   !.obj = [m.obj EXCEPT !.compliance = th.obj.compliance],
                   !.err = m.err, !.rout = rout,
                   !.beside = @ \/ OtherInFlight(t)]

\* The thread of record t after remediation_on_save (line 455).
AfterRemediation(t, rout) ==
    LET th == threads[t]
        m == remediation_on_save(th.obj, th.rule, th.env, FUNC_MAPPER, rout)
    IN  [th EXCEPT !.pc = IF m.err = NoError THEN "persist" ELSE "raised",
                   !.obj = m.obj, !.err = m.err, !.rout = rout,
                   !.beside = @ \/ OtherInFlight(t)]

StepRemediation(t) ==
    /\ threads[t].pc = "remediation"
    /\ \E rout \in RemediatorOutcomes(threads[t].obj, threads[t].rule,
                                      threads[t].env, FUNC_MAPPER) :
           threads' = [threads EXCEPT ![t] = AfterRemediation(t, rout)]
    /\ UNCHANGED <<PLUGIN_CFG, process, FUNC_MAPPER, rule, env, obj, db, last, golden_configs, tasks, clock>>

\* super().save() (line 457): the record's row becomes the instance.
StepPersist(t) ==
    /\ threads[t].pc = "persist"
    /\ threads' = [threads EXCEPT ![t] =
           [@ EXCEPT !.pc = "done", !.row = threads[t].obj,
                     !.beside = @ \/ OtherInFlight(t)]]
    /\ UNCHANGED <<PLUGIN_CFG, process, FUNC_MAPPER, rule, env, obj, db, last, golden_configs, tasks, clock>>

\* save() has returned or raised: the caller drops the instance and goes on.
Return(t) ==
    /\ threads[t].pc \in {"done", "raised"}
    /\ threads' = [threads EXCEPT ![t] =
           IdleThread([rule |-> threads[t].rule, env |-> threads[t].env], threads[t].row)]
    /\ UNCHANGED <<PLUGIN_CFG, process, FUNC_MAPPER, rule, env, obj, db, last, golden_configs, tasks, clock>>

NextConcurrent ==
    \/ \E t \in RecordIds, a \in ThreadConfigs, i \in ThreadConfigs : Begin(t, a, i)
    \/ \E t \in RecordIds : StepCompliance(t)
    \/ \E t \in RecordIds : StepRemediation(t)
    \/ \E t \in RecordIds : StepPersist(t)
    \/ \E t \in RecordIds : Return(t)

SpecConcurrent == InitConcurrent /\ [][NextConcurrent]_vars

\* ------------------------------------- the JSON comparator on documents
\* {"ntp": {"servers": q}}
Servers(q) == JDict([ntp |-> JDict([servers |-> JList(q)])])

\* The documents compared: server lists that gain, lose, change or reorder an
\* item, dicts that gain or lose a key, and values that change type.
JsonDocuments ==
    {Servers(q) : q \in {<<>>, <<1>>, <<2>>, <<1, 2>>, <<2, 1>>, <<1, 1>>}}
    \cup {EmptyDict,
          JDict([ntp |-> EmptyDict]),
          JDict([ntp |-> JList(<<1>>)]),
          JDict([snmp |-> JList(<<2>>)]),
          JDict([ntp |-> JDict([servers |-> JList(<<1>>)]), snmp |-> JList(<<1>>)]),
          JList(<<1>>)}

InitDocument ==
    /\ PLUGIN_CFG = FullSettings
    /\ process = Serving
    /\ FUNC_MAPPER = BuildFuncMapper(FullCfg)
    /\ rule \in JsonRules
    /\ env = HierEnv
    /\ obj = NewRecord
    /\ db = NoRow
    /\ last = NoCall
    /\ threads = NoThreads
    /\ golden_configs = <<>>
    /\ tasks = NoTasks
    /\ clock = 0

\* save() of the record with the documents a and i under a built-in JSON rule.
CompareDocuments(a, i) ==
    LET o == [obj EXCEPT !.actual = a, !.intended = i]
        c == StoreDetails(o, _get_json_compliance_document(o, rule))
        m == remediation_on_save(c, rule, env, FUNC_MAPPER,
                                 [call |-> "not_called", value |-> PyNone])
    IN  Commit("compare", NotCalled,
               [err |-> m.err, obj |-> m.obj, persisted |-> (m.err = NoError),
                comparator |-> FUNC_MAPPER[rule.config_type], validated |-> FALSE,
                remediator |-> m.remediator])

NextDocument == \E a \in JsonDocuments, i \in JsonDocuments : CompareDocuments(a, i)

SpecDocument == InitDocument /\ [][NextDocument]_vars

\* --------------------------------------------- the CLI comparator alone
\* CLI rules evaluated by the built-in comparator, with remediation disabled.
CliRules == {r \in Rules({"cli"}) : ~r.custom_compliance /\ ~r.config_remediation}

InitCli ==
    /\ PLUGIN_CFG = FullSettings
    /\ process = Serving
    /\ FUNC_MAPPER = BuildFuncMapper(FullCfg)
    /\ rule \in CliRules
    /\ env = HierEnv
    /\ obj = NewRecord
    /\ db = NoRow
    /\ last = NoCall
    /\ threads = NoThreads
    /\ golden_configs = <<>>
    /\ tasks = NoTasks
    /\ clock = 0

NextCli == \E a \in CliConfigs, i \in CliConfigs : Save(a, i)

SpecCli == InitCli /\ [][NextCli]_vars

\* --------------------------------- run_template (config_intended.py)
\* The variables of the compliance evaluation, which run_template leaves alone.
evaluation == <<PLUGIN_CFG, process, FUNC_MAPPER, rule, env, obj, db, last, threads>>

\* A DateTimeField holding NULL.
Null == 0

\* GoldenConfig.objects.create(device=obj): the fields' defaults.
NewGoldenConfig ==
    [intended_last_attempt_date |-> Null, intended_last_success_date |-> Null,
     intended_config |-> ""]

\* What generate_config may render.
GeneratedConfigs == {"config_a", "config_b"}

\* What happens between the first save and the last: every step succeeds, the
\* GraphQL query returns another status than 200, or a rendering step raises.
RenderOutcomes == {"ok", "status_not_200", "generation_failed"}

\* A run_template execution not started: pk is the primary key of intended_obj
\* (0: none), loaded the row as it was fetched or created.
IdleTask ==
    [pc |-> "idle", now |-> 0, pk |-> 0, intended_obj |-> NewGoldenConfig,
     loaded |-> NewGoldenConfig, outcome |-> "none", generated |-> ""]

\* The task record with some fields replaced.
TaskAt(w, pc) == [tasks[w] EXCEPT !.pc = pc]

\* The job's timestamp (defaults["now"], taken when the job starts) and the
\* task for the device: timestamps do not decrease from one job to the next.
StartTask(w, now) ==
    /\ tasks[w].pc = "idle"
    /\ now >= clock
    /\ clock' = now
    /\ tasks' = [tasks EXCEPT ![w] = [IdleTask EXCEPT !.pc = "lookup", !.now = now]]
    /\ UNCHANGED <<evaluation, golden_configs>>

\* GoldenConfig.objects.filter(device=obj).first() (line 64): one of the
\* device's rows (Meta.ordering is the device alone), or None.
Lookup(w) ==
    /\ tasks[w].pc = "lookup"
    /\ IF golden_configs = <<>>
       THEN tasks' = [tasks EXCEPT ![w] = TaskAt(w, "create")]
       ELSE \E pk \in DOMAIN golden_configs :
                tasks' = [tasks EXCEPT ![w] =
                    [TaskAt(w, "attempt") EXCEPT !.pk = pk,
                                                 !.intended_obj = golden_configs[pk],
                                                 !.loaded = golden_configs[pk]]]
    /\ UNCHANGED <<evaluation, golden_configs, clock>>

\* GoldenConfig.objects.create(device=obj) (lines 65-66).
Create(w) ==
    /\ tasks[w].pc = "create"
    /\ golden_configs' = Append(golden_configs, NewGoldenConfig)
    /\ tasks' = [tasks EXCEPT ![w] =
           [TaskAt(w, "attempt") EXCEPT !.pk = Len(golden_configs) + 1,
                                        !.intended_obj = NewGoldenConfig,
                                        !.loaded = NewGoldenConfig]]
    /\ UNCHANGED <<evaluation, clock>>

\* intended_last_attempt_date = now; intended_obj.save() (lines 67-68): save()
\* writes every field of the instance to its row.
SaveAttempt(w) ==
    /\ tasks[w].pc = "attempt"
    /\ LET o == [tasks[w].intended_obj EXCEPT !.intended_last_attempt_date = tasks[w].now]
       IN  /\ golden_configs' = [golden_configs EXCEPT ![tasks[w].pk] = o]
           /\ tasks' = [tasks EXCEPT ![w] = [TaskAt(w, "render") EXCEPT !.intended_obj = o]]
    /\ UNCHANGED <<evaluation, clock>>

\* run_template going on to the final save whatever the query and the
\* generation returned.
Rendered_unchecked(w, outcome, config) ==
    [TaskAt(w, "success") EXCEPT !.outcome = outcome, !.generated = config]

\* The task after lines 70-94: the templates, the GraphQL query and
\* generate_config; any failure raises out of run_template.
Rendered(w, outcome, config) ==
    [TaskAt(w, IF outcome = "ok" THEN "success" ELSE "raised")
        EXCEPT !.outcome = outcome, !.generated = IF outcome = "ok" THEN config ELSE ""]

Render(w) ==
    /\ tasks[w].pc = "render"
    /\ \E outcome \in RenderOutcomes, config \in GeneratedConfigs :
           tasks' = [tasks EXCEPT ![w] = Rendered(w, outcome, config)]
    /\ UNCHANGED <<evaluation, golden_configs, clock>>

\* intended_last_success_date = now; intended_config = generated_config;
\* intended_obj.save() (lines 95-97).
SaveSuccess(w) ==
    /\ tasks[w].pc = "success"
    /\ LET o == [tasks[w].intended_obj EXCEPT !.intended_last_success_date = tasks[w].now,
                                              !.intended_config = tasks[w].generated]
       IN  /\ golden_configs' = [golden_configs EXCEPT ![tasks[w].pk] = o]
           /\ tasks' = [tasks EXCEPT ![w] = [TaskAt(w, "done") EXCEPT !.intended_obj = o]]
    /\ UNCHANGED <<evaluation, clock>>

\* run_template has returned its Result or raised: the worker is free again.
EndTask(w) ==
    /\ tasks[w].pc \in {"done", "raised"}
    /\ tasks' = [tasks EXCEPT ![w] = IdleTask]
    /\ UNCHANGED <<evaluation, golden_configs, clock>>

\* Latest job timestamp of the model.
MaxNow == 3

InitIntended(workers) ==
    /\ PLUGIN_CFG = FullSettings
    /\ process = Serving
    /\ FUNC_MAPPER = BuildFuncMapper(FullCfg)
    /\ rule \in {r \in CliRules : r.config_ordered}
    /\ env = HierEnv
    /\ obj = NewRecord
    /\ db = NoRow
    /\ last = NoCall
    /\ threads = NoThreads
    /\ golden_configs = <<>>
    /\ tasks = [w \in workers |-> IdleTask]
    /\ clock = 0

NextIntended ==
    \/ \E w \in DOMAIN tasks, now \in 1..MaxNow : StartTask(w, now)
    \/ \E w \in DOMAIN tasks : Lookup(w)
    \/ \E w \in DOMAIN tasks : Create(w)
    \/ \E w \in DOMAIN tasks : SaveAttempt(w)
    \/ \E w \in DOMAIN tasks : Render(w)
    \/ \E w \in DOMAIN tasks : SaveSuccess(w)
    \/ \E w \in DOMAIN tasks : EndTask(w)

\* One intended-config job after another.
InitIntendedRuns == InitIntended({1})
SpecIntended == InitIntendedRuns /\ [][NextIntended]_vars

\* Jobs started in all, in the model of jobs that overlap.
MaxJobs == 2

\* Two intended-config workers at the same time: each job started has a
\* later timestamp than the one before.
InitIntendedJobs == InitIntended({1, 2})

NextIntendedJobs ==
    \/ \E w \in DOMAIN tasks : clock < MaxJobs /\ StartTask(w, clock + 1)
    \/ \E w \in DOMAIN tasks : Lookup(w)
    \/ \E w \in DOMAIN tasks : Create(w)
    \/ \E w \in DOMAIN tasks : SaveAttempt(w)
    \/ \E w \in DOMAIN tasks : Render(w)
    \/ \E w \in DOMAIN tasks : SaveSuccess(w)
    \/ \E w \in DOMAIN tasks : EndTask(w)

SpecIntendedJobs == InitIntendedJobs /\ [][NextIntendedJobs]_vars

\* --------------------------------------------------------------- claims
\* A save() whose compliance_on_save ran to its end stored a verdict on the record.
Saved == last.op = "save" /\ last.persisted

C2_CompliantHasNoDiff ==
    Truthy(obj.compliance) => obj.missing = EmptyStr /\ obj.extra = EmptyStr

\* C3: after a successful save() the remediation of the record (in memory and
\* stored) is null whenever the compliance that save computed is true or the
\* rule's config_remediation is false, whatever remediation the record held
\* before, and no remediator was invoked.
C3_RemediationNullWhenSkipped ==
    (Saved /\ (Truthy(obj.compliance) \/ ~rule.config_remediation)) =>
        /\ obj.remediation = PyNone
        /\ db.remediation = PyNone
        /\ last.remediator = "none"

\* C3's case: a non-compliant record that held a remediation is saved again
\* after the rule's remediation was disabled.
C3_Witness ==
    /\ Saved
    /\ last.prior_remediation # PyNone
    /\ ~Truthy(obj.compliance)
    /\ ~rule.config_remediation
    /\ obj.remediation = PyNone

\* C4 (as claimed): after a successful save() of a record whose actual equals
\* its intended, the stored remediation is null, whatever the rule's settings.
C4_EqualMeansNoRemediation ==
    (Saved /\ obj.actual = obj.intended) => db.remediation = PyNone

\* C4 (amended): after a successful save() of a record whose actual equals its
\* intended under a rule evaluated by a built-in comparator (custom_compliance
\* false), the stored remediation is null, whatever the rule's other settings.
C4_EqualMeansNoRemediationBuiltin ==
    (Saved /\ ~rule.custom_compliance /\ obj.actual = obj.intended) =>
        db.remediation = PyNone

\* C4's case: a built-in rule with remediation enabled, a record that held a
\* remediation, saved with equal non-empty configurations.
C4_Witness ==
    /\ Saved
    /\ ~rule.custom_compliance
    /\ rule.config_remediation
    /\ obj.actual = obj.intended
    /\ obj.actual # <<>>
    /\ last.prior_remediation # PyNone
    /\ db.remediation = PyNone

\* q is p in another order.
IsReordering(p, q) ==
    /\ p # q
    /\ Len(p) = Len(q)
    /\ \A x \in Range(p) \cup Range(q) : Count(p, x) = Count(q, x)

\* C5 (as claimed): the JSON comparator is order-sensitive exactly when the rule
\* is ordered: lists that differ only in order, such as [1,2,3] and [3,2,1],
\* are compliant when config_ordered is false and non-compliant when it is true.
C5_OrderSensitiveIffOrdered ==
    (/\ last.op \in {"evaluate", "resave"}
     /\ last.comparator = "_get_json_compliance"
     /\ IsReordering(obj.actual, obj.intended)) =>
        (Truthy(obj.compliance) <=> ~rule.config_ordered)

\* The five verdict fields of a record.
VerdictOf(o) == Details(o.compliance, o.compliance_int, o.ordered, o.missing, o.extra)

\* C6 (as claimed): the verdict an evaluation stores depends only on actual,
\* intended and the rule: it is the verdict the same comparator gives a new
\* record with the same actual and intended, whatever the record held before.
C6_VerdictIgnoresPriorState ==
    (last.op \in {"evaluate", "resave"} /\ last.err = NoError) =>
        VerdictOf(obj) =
            CallComparator(last.comparator,
                           [NewRecord EXCEPT !.actual = obj.actual,
                                             !.intended = obj.intended], rule)

\* What the custom compliance function returned to the save() just made.
Returned == last.cout.details
Validated == last.op = "save" /\ last.validated
AllKeysPresent(d) == \A k \in DOMAIN d : d[k] # Absent
IsBoolean(x) == x.t = "bool"
IsZeroOrOne(x) == x.t = "int" /\ x.v \in {0, 1}

\* C7 (as claimed): the validator accepts a result only if compliance and ordered
\* are each exactly a boolean; with all keys present, any other value raises a
\* ValidationError naming the field, the type Boolean and the value.
C7_BooleansExact ==
    Validated =>
        /\ last.err = NoError => IsBoolean(Returned.compliance) /\ IsBoolean(Returned.ordered)
        /\ (AllKeysPresent(Returned) /\ ~IsBoolean(Returned.compliance)) =>
               last.err = Raise("ValidationError", "VALIDATION_MSG", "compliance",
                                "Boolean", Returned.compliance)
        /\ (/\ AllKeysPresent(Returned)
            /\ IsBoolean(Returned.compliance)
            /\ ~IsBoolean(Returned.ordered)) =>
               last.err = Raise("ValidationError", "VALIDATION_MSG", "ordered",
                                "Boolean", Returned.ordered)

\* C8 (as claimed): the validator accepts a result only if compliance_int is
\* exactly the integer 0 or 1; with all keys present and boolean compliance and
\* ordered, any other value raises a ValidationError naming compliance_int.
C8_ComplianceIntExact ==
    Validated =>
        /\ last.err = NoError => IsZeroOrOne(Returned.compliance_int)
        /\ (/\ AllKeysPresent(Returned)
            /\ IsBoolean(Returned.compliance)
            /\ IsBoolean(Returned.ordered)
            /\ ~IsZeroOrOne(Returned.compliance_int)) =>
               /\ last.err.exc = "ValidationError"
               /\ last.err.key = "compliance_int"

\* The order in which the claim names the keys.
ClaimedKeyOrder == <<"compliance", "compliance_int", "ordered", "missing", "extra">>

\* C9: a result lacking a key raises a ValidationError naming the first key, in
\* the order compliance, compliance_int, ordered, missing, extra, that it
\* lacks, whatever the values of the keys it holds.
C9_FirstMissingKeyNamed ==
    (Validated /\ ~AllKeysPresent(Returned)) =>
        /\ last.err.exc = "ValidationError"
        /\ last.err.msg = "MISSING_MSG"
        /\ \E n \in DOMAIN ClaimedKeyOrder :
               /\ last.err.key = ClaimedKeyOrder[n]
               /\ Returned[ClaimedKeyOrder[n]] = Absent
               /\ \A m \in 1..(n - 1) : Returned[ClaimedKeyOrder[m]] # Absent

\* C9's case: a result that lacks extra and has compliance_int = 2 is reported
\* as lacking extra.
C9_Witness ==
    /\ Validated
    /\ Returned.extra = Absent
    /\ Returned.compliance_int = PyInt(2)
    /\ \A k \in {"compliance", "ordered", "missing"} : Returned[k] # Absent
    /\ last.err.msg = "MISSING_MSG"
    /\ last.err.key = "extra"

\* A string, or a value json.dumps serializes.
IsStrOrJson(x) == x.t = "str" \/ json_dumps(x) = "ok"
\* The key, boolean and compliance_int checks pass as the validator makes them.
EarlierChecksPass(d) ==
    /\ AllKeysPresent(d)
    /\ PyIn(d.compliance, {PyTrue, PyFalse})
    /\ PyIn(d.ordered, {PyTrue, PyFalse})
    /\ PyIn(d.compliance_int, {PyInt(0), PyInt(1)})

\* C10 (as claimed): once the key, boolean and compliance_int checks pass, the
\* validator accepts missing and extra that are each a string or
\* JSON-serializable and raises a ValidationError naming the first of them that
\* is neither; it reports missing or extra only after the other checks pass.
C10_MissingExtraStrOrJson ==
    Validated =>
        /\ (/\ EarlierChecksPass(Returned)
            /\ IsStrOrJson(Returned.missing)
            /\ IsStrOrJson(Returned.extra)) => last.err = NoError
        /\ (EarlierChecksPass(Returned) /\ ~IsStrOrJson(Returned.missing)) =>
               last.err.exc = "ValidationError" /\ last.err.key = "missing"
        /\ (/\ EarlierChecksPass(Returned)
            /\ IsStrOrJson(Returned.missing)
            /\ ~IsStrOrJson(Returned.extra)) =>
               last.err.exc = "ValidationError" /\ last.err.key = "extra"
        /\ (last.err.msg = "VALIDATION_MSG" /\ last.err.key \in {"missing", "extra"}) =>
               EarlierChecksPass(Returned)

\* C11: save() calls the comparator registered under "custom" when the rule's
\* custom_compliance is set and the one registered under the rule's config_type
\* otherwise; the validator runs exactly when the custom function returned a
\* result, a result it rejects leaves the record's verdict as it was, and a
\* result it accepts is the verdict copied.
C11_ComparatorSelection ==
    last.op = "save" =>
        /\ (rule.custom_compliance /\ "custom" \in DOMAIN FUNC_MAPPER) =>
               last.comparator = FUNC_MAPPER["custom"]
        /\ ~rule.custom_compliance =>
               /\ last.comparator = FUNC_MAPPER[rule.config_type]
               /\ last.cout.call = "not_called"
        /\ last.validated <=> last.cout.call = "return"
        /\ last.validated =>
               IF _verify_get_custom_compliance_data(Returned) = NoError
               THEN VerdictOf(obj) = Returned
               ELSE /\ VerdictOf(obj) = VerdictOf(Stored)
                    /\ last.err = _verify_get_custom_compliance_data(Returned)

\* C11's case: a record that holds a verdict is saved again and the custom
\* function returns a result the validator rejects.
C11_Witness ==
    /\ last.op = "save"
    /\ rule.custom_compliance
    /\ last.comparator = "get_custom_compliance"
    /\ last.validated
    /\ last.err.exc = "ValidationError"
    /\ db # NoRow
    /\ VerdictOf(obj) = VerdictOf(db)

\* The compliance step of the save() just made ran to its end: a comparator was
\* found, it returned, and the validator passed its result if it was a custom one.
ComplianceStored ==
    /\ last.op = "save"
    /\ last.comparator # "none"
    /\ last.cout.call # "raise"
    /\ last.validated => _verify_get_custom_compliance_data(Returned) = NoError

\* The save() just made reached the remediator lookup: the verdict it computed
\* is non-compliant and the rule enables remediation.
RemediationWanted ==
    /\ ComplianceStored
    /\ ~Truthy(obj.compliance)
    /\ rule.config_remediation

\* C13: when the rule requests custom compliance and the registry holds no
\* custom compliance function, save() raises the ValidationError that no
\* get_custom_compliance is set; no comparator and no remediator is called, the
\* record's verdict and remediation stay as stored, and nothing is persisted.
C13_NoCustomFunction ==
    (/\ last.op = "save"
     /\ rule.custom_compliance
     /\ "custom" \notin DOMAIN FUNC_MAPPER) =>
        /\ last.err = Raise("ValidationError", "NO_GET_CUSTOM_COMPLIANCE", "", "", PyNone)
        /\ last.comparator = "none"
        /\ last.cout.call = "not_called"
        /\ last.remediator = "none"
        /\ ~last.persisted
        /\ VerdictOf(obj) = VerdictOf(Stored)
        /\ obj.remediation = Stored.remediation

\* C13's case: a record that holds a non-compliant verdict and a remediation is
\* saved after the rule was switched to custom compliance, with no custom
\* compliance function registered.
C13_Witness ==
    /\ last.op = "save"
    /\ rule.custom_compliance
    /\ "custom" \notin DOMAIN FUNC_MAPPER
    /\ db # NoRow
    /\ db.compliance = PyFalse
    /\ db.remediation # PyNone
    /\ obj.actual = obj.intended
    /\ last.err.msg = "NO_GET_CUSTOM_COMPLIANCE"

\* C14: for a non-compliant record whose rule enables remediation, when the
\* platform's remediation type has no function in the registry, save() raises a
\* ValidationError that names that remediation type; no remediator is called,
\* the remediation field keeps its value and nothing is persisted.
C14_NoRemediationFunction ==
    (/\ RemediationWanted
     /\ env.remediation_setting # "none"
     /\ env.remediation_setting \notin DOMAIN FUNC_MAPPER) =>
        /\ last.err = Raise("ValidationError", "NO_REMEDIATION_FUNCTION",
                            env.remediation_setting, "", PyNone)
        /\ last.remediator = "none"
        /\ obj.remediation = last.prior_remediation
        /\ ~last.persisted

\* C14's case: custom remediation is the platform's type, no custom remediation
\* function is registered, and the record already stores a remediation.
C14_Witness ==
    /\ RemediationWanted
    /\ env.remediation_setting = "custom_remediation"
    /\ "custom_remediation" \notin DOMAIN FUNC_MAPPER
    /\ db # NoRow
    /\ db.remediation # PyNone
    /\ obj.remediation = db.remediation
    /\ last.err.key = "custom_remediation"

\* C15: for a non-compliant record whose rule enables remediation, a platform
\* without remediation settings raises the ValidationError about the missing
\* settings (also when hierconfig does not support the platform), and a platform
\* hierconfig does not support raises the one about hierconfig when that strategy
\* is selected; both name the platform, and no remediation is stored.
C15_PlatformErrors ==
    RemediationWanted =>
        /\ env.remediation_setting = "none" =>
               /\ last.err = Raise("ValidationError", "NO_REMEDIATION_SETTINGS", "platform", "", PyNone)
               /\ last.remediator = "none"
               /\ obj.remediation = last.prior_remediation
               /\ ~last.persisted
        /\ (env.remediation_setting = "hierconfig" /\ ~env.hier_os) =>
               /\ last.err = Raise("ValidationError", "NOT_SUPPORTED_BY_HIERCONFIG", "platform", "", PyNone)
               /\ last.remediator = "_get_hierconfig_remediation"
               /\ obj.remediation = last.prior_remediation
               /\ ~last.persisted

\* C15's case: the platform has neither remediation settings nor a hierconfig
\* dialect, and the record already stores a remediation.
C15_Witness ==
    /\ RemediationWanted
    /\ env.remediation_setting = "none"
    /\ ~env.hier_os
    /\ db # NoRow
    /\ db.remediation # PyNone
    /\ obj.remediation = db.remediation
    /\ last.err.msg = "NO_REMEDIATION_SETTINGS"

\* C16: once models.py has been imported, either no configured custom function
\* failed to import, the process serves, and the registry holds the built-ins
\* plus exactly the configured custom functions under their kinds (an unset one
\* leaves its kind unregistered); or the import raised an Exception about the
\* first failing function with the import failure behind it, and no registry
\* exists. No evaluation ever runs with a configured custom function missing.
C16_RegistryCompleteOrFatal ==
    /\ process.phase # "starting" =>
           IF \E f \in DOMAIN PLUGIN_CFG : PLUGIN_CFG[f] = "broken"
           THEN /\ process.phase = "failed"
                /\ process.err.exc = "Exception"
                /\ process.err.msg = "IMPORT_ISSUE"
                /\ PLUGIN_CFG[process.err.key] = "broken"
                /\ process.cause = "ImportError"
                /\ FUNC_MAPPER = Unbound
                /\ last.op \notin {"save"}
           ELSE /\ process = Serving
                /\ \A k \in DOMAIN BuiltinFunctions :
                       k \in DOMAIN FUNC_MAPPER /\ FUNC_MAPPER[k] = BuiltinFunctions[k]
                /\ \A f \in DOMAIN CUSTOM_FUNCTIONS :
                       /\ PLUGIN_CFG[f] = "importable" =>
                              /\ CUSTOM_FUNCTIONS[f] \in DOMAIN FUNC_MAPPER
                              /\ FUNC_MAPPER[CUSTOM_FUNCTIONS[f]] = f
                       /\ PLUGIN_CFG[f] = "unset" =>
                              CUSTOM_FUNCTIONS[f] \notin DOMAIN FUNC_MAPPER
    /\ last.op = "save" =>
           \A f \in DOMAIN CUSTOM_FUNCTIONS :
               PLUGIN_CFG[f] # "unset" => CUSTOM_FUNCTIONS[f] \in DOMAIN FUNC_MAPPER

\* C16's case: the first custom function imports and the second does not, so the
\* import of models.py has raised after the first was registered.
C16_Witness ==
    /\ PLUGIN_CFG["get_custom_compliance"] = "importable"
    /\ PLUGIN_CFG["get_custom_remediation"] = "broken"
    /\ process.phase = "failed"
    /\ process.err.key = "get_custom_remediation"

\* C17: once the process serves, no step changes FUNC_MAPPER: every save(),
\* whether it succeeds or raises at a lookup, in a comparator, in the validator
\* or in a remediator, leaves the registered kinds and their functions as built.
C17_RegistryNeverModified ==
    [][process.phase = "serving" => FUNC_MAPPER' = FUNC_MAPPER]_vars

\* C17's case: a save() that looked up and called the custom comparator and a
\* remediator has run against the built registry, and so has one that raised.
C17_Witness ==
    /\ process.phase = "serving"
    /\ last.op = "save"
    /\ last.comparator = "get_custom_compliance"
    /\ last.remediator = "get_custom_remediation"
    /\ last.err # NoError
    /\ FUNC_MAPPER = ImportRegistry(PLUGIN_CFG).FUNC_MAPPER

\* The record the JSON comparator was given by the evaluation just made: the
\* instance with its new actual and intended and the `ordered` it held before.
JsonInput == [obj EXCEPT !.ordered = last.prior_ordered]

\* The evaluation just made ran the built-in JSON comparator.
JsonEvaluated ==
    /\ last.op \in {"evaluate", "resave"}
    /\ last.comparator = "_get_json_compliance"
    /\ last.err = NoError

\* C19 (as claimed): the JSON comparator given the same record with actual and
\* intended swapped returns the missing and extra of the evaluation swapped,
\* and the same compliance, compliance_int and ordered.
C19_SwapSwapsMissingExtra ==
    JsonEvaluated =>
        LET swapped == _get_json_compliance([JsonInput EXCEPT !.actual = obj.intended,
                                                              !.intended = obj.actual], rule)
        IN  /\ swapped.missing = obj.extra
            /\ swapped.extra = obj.missing
            /\ swapped.compliance = obj.compliance
            /\ swapped.compliance_int = obj.compliance_int
            /\ swapped.ordered = obj.ordered

\* C20: the JSON comparator's verdict is compliance True, compliance_int 1,
\* ordered True, missing "" and extra "" exactly when the diff of actual against
\* intended is empty, and compliance False, compliance_int 0 and ordered False
\* whenever the diff is not empty.
C20_CompliantIffDiffEmpty ==
    JsonEvaluated =>
        LET diff == DeepDiff(obj.actual, obj.intended, Truthy(last.prior_ordered))
        IN  /\ DiffIsEmpty(diff) <=>
                   VerdictOf(obj) = Details(PyTrue, PyInt(1), PyTrue, EmptyStr, EmptyStr)
            /\ ~DiffIsEmpty(diff) =>
                   /\ obj.compliance = PyFalse
                   /\ obj.compliance_int = PyInt(0)
                   /\ obj.ordered = PyFalse

\* C20's case: a diff that is not empty although it holds no missing and no
\* extra path (an item repeated a different number of times), judged
\* non-compliant.
C20_Witness ==
    /\ JsonEvaluated
    /\ DeepDiff(obj.actual, obj.intended, Truthy(last.prior_ordered)).repetition_change # <<>>
    /\ obj.missing = EmptyStr
    /\ obj.extra = EmptyStr
    /\ obj.compliance = PyFalse

\* The save() of record t has raised.
HasRaised(t) == threads[t].pc = "raised"

\* C12: a save() that raised, at a lookup, in the validator, in a comparator
\* or in a remediator, has not persisted: the record's row is the one it had
\* when save() began, the row is only ever written by a save() without error,
\* and the raising step leaves every other record's thread and row as they
\* were, each still free to begin or to go on with its own evaluation.
C12_StateOfFailedSave ==
    \A t \in RecordIds :
        /\ HasRaised(t) =>
               /\ threads[t].err # NoError
               /\ threads[t].row = threads[t].row_at_begin
        /\ threads[t].pc = "done" =>
               /\ threads[t].err = NoError
               /\ threads[t].row = threads[t].obj
        /\ threads[t].pc \in {"compliance", "remediation", "persist"} =>
               threads[t].row = threads[t].row_at_begin
        /\ threads[t].pc = "idle" => ENABLED Begin(t, <<>>, <<1>>)
        /\ threads[t].pc = "persist" => ENABLED StepPersist(t)

C12_FailedSaveNotPersisted ==
    /\ []C12_StateOfFailedSave
    /\ [][\A t \in RecordIds :
              (HasRaised(t)' /\ ~HasRaised(t)) =>
                  /\ threads'[t].row = threads[t].row
                  /\ \A u \in RecordIds \ {t} : threads'[u] = threads[u]]_vars

\* C12's case: a record that stores a non-compliant verdict and a remediation
\* went through a save() that raised, while the other record, whose save()
\* began after that failure, has persisted its own.
C12_Witness ==
    \E t \in RecordIds, u \in RecordIds :
        /\ t # u
        /\ HasRaised(t)
        /\ threads[t].row # NoRow
        /\ threads[t].row.compliance = PyFalse
        /\ threads[t].row.remediation # PyNone
        /\ threads[t].obj # threads[t].row
        /\ threads[u].pc = "done"
        /\ threads[u].after_failure

\* C18: whatever the interleaving, a record's save() that has returned or raised
\* left the instance, the error and the row that save() run alone on the same
\* instance, with the same rule, platform, registry and outcomes of the custom
\* functions, leaves.
C18_SameAsAlone ==
    \A t \in RecordIds :
        threads[t].pc \in {"done", "raised"} =>
            LET th == threads[t]
                alone == save(th.begun, th.rule, th.env, FUNC_MAPPER, th.cout, th.rout)
            IN  /\ th.err = alone.err
                /\ th.obj = alone.obj
                /\ th.row = IF alone.persisted THEN alone.obj ELSE th.row_at_begin
                /\ (th.pc = "done") <=> alone.persisted

\* C18's case: two save() calls on different inputs that ran beside each other,
\* one of which returned and the other raised.
C18_Witness ==
    \E t \in RecordIds, u \in RecordIds :
        /\ t # u
        /\ threads[t].pc = "done"
        /\ threads[t].beside
        /\ threads[u].pc = "raised"
        /\ threads[u].beside
        /\ threads[t].begun.actual # threads[u].begun.actual

\* Whether the path leads to a value of the document.
RECURSIVE Resolves(_, _)
Resolves(doc, path) ==
    IF path = <<>> THEN TRUE
    ELSE LET step == Head(path)
         IN  IF doc.t = "dict"
             THEN /\ "key" \in DOMAIN step
                  /\ step.key \in DOMAIN doc.v
                  /\ Resolves(doc.v[step.key], Tail(path))
             ELSE /\ "index" \in DOMAIN step
                  /\ (step.index + 1) \in DOMAIN doc.v
                  /\ Tail(path) = <<>>

\* A list of paths as the verdict reports it: "" when there is none.
ReportedPaths(q) == IF q = <<>> THEN EmptyStr ELSE PyList(q)

\* C21: for a non-compliant verdict on documents, missing is the paths of the
\* dict items and list items only intended holds, then the paths whose value
\* changed, then the paths whose type changed, and extra the same with the items
\* only actual holds; an empty list is reported as "". The paths of added items
\* lead into intended and those of removed items into actual. For intended
\* {ntp: {servers: [1]}} and actual {ntp: {servers: []}}, missing is
\* [root['ntp']['servers'][0]] and extra is "".
C21_MissingExtraPaths ==
    (last.op = "compare" /\ obj.compliance = PyFalse) =>
        LET diff == DeepDiffDocument(<<>>, obj.actual, obj.intended, Truthy(last.prior_ordered))
            added == diff.dictionary_item_added \o diff.iterable_item_added
            removed == diff.dictionary_item_removed \o diff.iterable_item_removed
        IN  /\ obj.missing = ReportedPaths(added \o diff.values_changed \o diff.type_changes)
            /\ obj.extra = ReportedPaths(removed \o diff.values_changed \o diff.type_changes)
            /\ \A k \in DOMAIN added : Resolves(obj.intended, added[k])
            /\ \A k \in DOMAIN removed : Resolves(obj.actual, removed[k])
            /\ \A k \in DOMAIN diff.dictionary_item_added :
                   ~Resolves(obj.actual, diff.dictionary_item_added[k])
            /\ \A k \in DOMAIN diff.dictionary_item_removed :
                   ~Resolves(obj.intended, diff.dictionary_item_removed[k])
            /\ (obj.intended = Servers(<<1>>) /\ obj.actual = Servers(<<>>)) =>
                   /\ obj.missing = PyList(<< <<Key("ntp"), Key("servers"), Index(0)>> >>)
                   /\ obj.extra = EmptyStr

\* C21's case: the example has been evaluated on a record with ordered = True.
C21_Witness ==
    /\ last.op = "compare"
    /\ last.prior_ordered = PyTrue
    /\ obj.intended = Servers(<<1>>)
    /\ obj.actual = Servers(<<>>)
    /\ obj.compliance = PyFalse
    /\ obj.missing = PyList(<< <<Key("ntp"), Key("servers"), Index(0)>> >>)

\* The order of the steps of one save(): where a thread may go next.
StepOrder ==
    {<<"idle", "compliance">>, <<"compliance", "remediation">>, <<"compliance", "raised">>,
     <<"remediation", "persist">>, <<"remediation", "raised">>, <<"persist", "done">>,
     <<"done", "idle">>, <<"raised", "idle">>}

\* A save() past its remediation step: the verdict on the instance is the one
\* compliance_on_save computed in this call, no step raised, and the remediator
\* was called exactly when that verdict is non-compliant and the rule enables
\* remediation; otherwise the remediation is None.
C22_StateAfterRemediation ==
    \A t \in RecordIds :
        threads[t].pc \in {"persist", "done"} =>
            LET th == threads[t]
                c == compliance_on_save(th.begun, th.rule, FUNC_MAPPER, th.cout)
            IN  /\ th.err = NoError
                /\ c.err = NoError
                /\ VerdictOf(th.obj) = VerdictOf(c.obj)
                /\ (Truthy(th.obj.compliance) \/ ~th.rule.config_remediation) =>
                       /\ th.obj.remediation = PyNone
                       /\ th.rout.call = "not_called"
                /\ (~Truthy(th.obj.compliance) /\ th.rule.config_remediation) =>
                       th.rout.call # "not_called"

\* C22: one save() computes the verdict, then decides and computes the
\* remediation, then persists: the steps follow StepOrder, the remediation
\* decision reads the compliance computed in the same call, and the row is
\* written only by the persist step, which is reached only without error.
C22_StepsInOrder ==
    /\ []C22_StateAfterRemediation
    /\ [][\A t \in RecordIds :
              /\ threads'[t].pc # threads[t].pc =>
                     <<threads[t].pc, threads'[t].pc>> \in StepOrder
              /\ threads'[t].row # threads[t].row =>
                     /\ threads[t].pc = "persist"
                     /\ threads'[t].pc = "done"
                     /\ threads[t].err = NoError
                     /\ threads'[t].row = threads[t].obj]_vars

\* C22's case: a record stored as non-compliant with a remediation is found
\* compliant by a later save(), which stores no remediation.
C22_Witness ==
    \E t \in RecordIds :
        /\ threads[t].pc = "done"
        /\ threads[t].begun.compliance = PyFalse
        /\ threads[t].begun.remediation # PyNone
        /\ threads[t].obj.compliance = PyTrue
        /\ threads[t].row.remediation = PyNone

\* C23 (as claimed): every error of the hierarchical remediator, whether from
\* building the host, loading either configuration or computing the
\* remediation, reaches the caller of save() as an error that names the device
\* or the platform, and none of them is swallowed.
C23_HierErrorsCarryContext ==
    (last.op = "save" /\ last.remediator = "_get_hierconfig_remediation") =>
        /\ last.err # NoError => last.err.key \in {"device", "platform"}
        /\ last.err = NoError => obj.remediation = HierRemediation(obj.actual, obj.intended)

\* A str of the library as the verdict reports it: "" when empty.
ReportedText(x) == IF x.v = <<>> THEN EmptyStr ELSE x

\* C24: the CLI comparator's verdict mirrors netutils' feature_compliance:
\* compliance is its compliant flag, compliance_int is 1 exactly when the flag
\* is true, ordered is its ordered_compliant in either branch, missing and extra
\* are its values with an empty one reported as ""; identical actual and
\* intended give compliant with empty missing and extra.
C24_CliMirrorsLibrary ==
    (last.op = "save" /\ last.comparator = "_get_cli_compliance") =>
        LET value == feature_compliance(rule.config_ordered, obj.actual, obj.intended)
        IN  /\ obj.compliance = PyBool(value.compliant)
            /\ obj.compliance_int = PyInt(IF value.compliant THEN 1 ELSE 0)
            /\ obj.ordered = PyBool(value.ordered_compliant)
            /\ obj.missing = ReportedText(value.missing)
            /\ obj.extra = ReportedText(value.extra)
            /\ obj.actual = obj.intended =>
                   /\ obj.compliance = PyTrue
                   /\ obj.missing = EmptyStr
                   /\ obj.extra = EmptyStr

\* C24's case: under a rule that is not ordered, the intended lines in another
\* order are compliant, and ordered differs from compliance.
C24_Witness ==
    /\ last.op = "save"
    /\ last.comparator = "_get_cli_compliance"
    /\ ~rule.config_ordered
    /\ IsReordering(obj.actual, obj.intended)
    /\ obj.compliance = PyTrue
    /\ obj.ordered = PyFalse

\* C25 (as claimed): every non-compliant verdict of the JSON comparator reports
\* a missing or an extra path: compliance False never comes with missing ""
\* and extra "".
C25_NonCompliantNamesAPath ==
    (JsonEvaluated /\ obj.compliance = PyFalse) =>
        (obj.missing # EmptyStr \/ obj.extra # EmptyStr)

\* C26 (as claimed): when save() raises, at whichever step, the instance's
\* compliance, compliance_int, ordered, missing, extra and remediation are the
\* ones it held before the call.
C26_FailedSaveLeavesInstance ==
    (last.op = "save" /\ last.err # NoError) =>
        /\ VerdictOf(obj) = VerdictOf(Stored)
        /\ obj.remediation = last.prior_remediation

\* The row of the GoldenConfig the task holds.
RowOf(w) == golden_configs[tasks[w].pk]

\* run_template between its two saves and after: the attempt date is stored
\* before rendering; until the final save the success date and the intended
\* config are the ones the row was fetched with; the final save is reached only
\* when the query returned 200 and the generation succeeded; and no row has a
\* success date later than its attempt date.
C27_StateOfRun ==
    /\ \A w \in DOMAIN tasks :
           /\ tasks[w].pc \in {"render", "success", "raised", "done"} =>
                  RowOf(w).intended_last_attempt_date = tasks[w].now
           /\ tasks[w].pc \in {"render", "success", "raised"} =>
                  /\ RowOf(w).intended_last_success_date =
                         tasks[w].loaded.intended_last_success_date
                  /\ RowOf(w).intended_config = tasks[w].loaded.intended_config
           /\ tasks[w].pc = "raised" => tasks[w].outcome # "ok"
           /\ tasks[w].pc \in {"success", "done"} => tasks[w].outcome = "ok"
           /\ tasks[w].pc = "done" =>
                  /\ RowOf(w).intended_last_success_date = tasks[w].now
                  /\ RowOf(w).intended_config = tasks[w].generated
    /\ \A pk \in DOMAIN golden_configs :
           golden_configs[pk].intended_last_success_date
               <= golden_configs[pk].intended_last_attempt_date

\* C27: in run_template the attempt date is set and saved before rendering
\* starts; the success date and the intended config change only in the final
\* save, after a query status of 200 and a successful generation; otherwise the
\* task raises and both keep their values. With job timestamps that do not
\* decrease, intended_last_success_date is never later than
\* intended_last_attempt_date.
C27_SuccessAfterAttempt ==
    /\ []C27_StateOfRun
    /\ [][\A pk \in DOMAIN golden_configs :
              (\/ golden_configs'[pk].intended_last_success_date
                      # golden_configs[pk].intended_last_success_date
               \/ golden_configs'[pk].intended_config # golden_configs[pk].intended_config) =>
                  \E w \in DOMAIN tasks :
                      /\ tasks[w].pk = pk
                      /\ tasks[w].pc = "success"
                      /\ tasks[w].outcome = "ok"
                      /\ tasks'[w].pc = "done"]_vars

\* C27's case: after a run that succeeded, a later run has raised: the row
\* keeps the earlier success date and config under the later attempt date.
C27_Witness ==
    \E w \in DOMAIN tasks :
        /\ tasks[w].pc = "raised"
        /\ tasks[w].outcome = "status_not_200"
        /\ RowOf(w).intended_config # ""
        /\ RowOf(w).intended_last_success_date # Null
        /\ RowOf(w).intended_last_success_date < RowOf(w).intended_last_attempt_date

\* C28 (as claimed): run_template creates a GoldenConfig only when the device
\* has none, so the device never has more than one, and has exactly one once a
\* run_template is past the creation.
C28_OneGoldenConfigPerDevice ==
    /\ Len(golden_configs) <= 1
    /\ \A w \in DOMAIN tasks :
           tasks[w].pc \in {"attempt", "render", "success", "raised", "done"} =>
               Len(golden_configs) = 1

====
